---- MODULE Spec2Model ----
(***************************************************************************)
(* Model of ojitha/rag_llamaindex: the two Streamlit chat applications     *)
(* src/sc_app/app.py and src/sc_bedrock_app/app.py.                        *)
(*                                                                         *)
(* The Bedrock application is the superset (it adds the data source        *)
(* selection); the OpenAI application is the same script with the data     *)
(* source fixed to the default folder, so line references are to           *)
(* src/sc_bedrock_app/app.py unless stated otherwise.                      *)
(*                                                                         *)
(* Temperatures are in tenths (0.3 is 3), since the slider moves in steps  *)
(* of 0.1.  Python's None is the record None; every optional value is a    *)
(* record with a "kind" field so that values of different shapes can be    *)
(* compared.  A text is a record of its fragments and its token count.     *)
(*                                                                         *)
(* The chat engine's chat() and the ChatMemoryBuffer are llama_index code, *)
(* which is not part of the repository's files: Respond, MemoryAppend and  *)
(* their helpers follow spec.md sections 3 and 4.                          *)
(***************************************************************************)
EXTENDS Integers, Sequences, FiniteSets, TLC

VARIABLES
    messages,       \* st.session_state.messages
    temp_dir,       \* st.session_state.temp_dir and the files saved in it
    doc_cache,      \* st.cache_resource store of load_documents
    index_cache,    \* st.cache_resource store of create_index
    Settings,       \* llama_index.core.Settings (process-wide defaults)
    widgets,        \* the sidebar widgets' values
    run,            \* the locals of the last script run of main()
    after_reset,    \* history: Clear emptied the messages; at most one respond since
    api_call,       \* the last direct call of create_chat_engine and its result
    api_history     \* every turn appended to that engine's memory since the call

vars == <<messages, temp_dir, doc_cache, index_cache, Settings, widgets, run,
          after_reset, api_call, api_history>>

app_vars == <<messages, temp_dir, doc_cache, index_cache, Settings, widgets, run,
              after_reset>>

api_vars == <<api_call, api_history>>

(***************************************************************************)
(* Bounds of the model.                                                    *)
(***************************************************************************)
\* Appends to one memory buffer in the component-level specification.
MaxAppends == 4

\* Length of st.session_state.messages before the chat input stops.
MaxMessages == 4

(***************************************************************************)
(* Program constants.                                                      *)
(***************************************************************************)
DefaultTokenLimit == 3900

MinTokenLimit == 1000

MaxTokenLimit == 8000

DefaultTemperature == 3

MinTemperature == 0

MaxTemperature == 10

EngineTypes == {"condense_question", "context", "condense_plus_context"}

None == [kind |-> "None"]

\* The value the specification expects of a rejected engine creation; no line of
\* the source produces it.
ConfigurationError == [kind |-> "ConfigurationError"]

(***************************************************************************)
(* Texts and turns.                                                        *)
(***************************************************************************)
Text(s, n) == [s |-> <<s>>, tokens |-> n]

\* An f-string: the fragments of both texts, in order.
Concat(a, b) == [s |-> a.s \o b.s, tokens |-> a.tokens + b.tokens]

DefaultPrompt ==
    Text("You are familiar with biographies of Albert and Marie, as well as their professional and social friendships and relationships.", 24)

Message(role, content) == [role |-> role, content |-> content]

TokenCount(turn) == turn.content.tokens

RECURSIVE SumTokens(_)
SumTokens(turns) ==
    IF turns = <<>> THEN 0 ELSE TokenCount(Head(turns)) + SumTokens(Tail(turns))

(***************************************************************************)
(* Memory Buffer (spec.md section 3 and 4.1).                              *)
(***************************************************************************)
\* ChatMemoryBuffer.from_defaults(token_limit=...)
ChatMemoryBuffer(token_limit) ==
    [bounded |-> TRUE, token_limit |-> token_limit, turns |-> <<>>]

\* The history a condense_question or default engine keeps: never trimmed.
UnboundedMemory == [bounded |-> FALSE, token_limit |-> 0, turns |-> <<>>]

\* A faulty eviction: the newest retained turn is dropped first.
RECURSIVE EvictNewestFirst(_, _, _)
EvictNewestFirst(turns, need, limit) ==
    IF turns = <<>> \/ SumTokens(turns) + need <= limit
    THEN turns
    ELSE EvictNewestFirst(SubSeq(turns, 1, Len(turns) - 1), need, limit)

\* Oldest turns are dropped first until `need` more tokens fit in `limit`.
RECURSIVE EvictUntilFits(_, _, _)
EvictUntilFits(turns, need, limit) ==
    IF turns = <<>> \/ SumTokens(turns) + need <= limit
    THEN turns
    ELSE EvictUntilFits(Tail(turns), need, limit)

\* append(turn): the new turn is always kept; a turn that alone exceeds the
\* budget empties the buffer and is retained alone.
MemoryAppend(memory, turn) ==
    IF ~memory.bounded
    THEN [memory EXCEPT !.turns = Append(@, turn)]
    ELSE IF TokenCount(turn) > memory.token_limit
    THEN [memory EXCEPT !.turns = <<turn>>]
    ELSE [memory EXCEPT
            !.turns = Append(EvictUntilFits(@, TokenCount(turn), memory.token_limit),
                             turn)]

\* clear()
MemoryClear(memory) == [memory EXCEPT !.turns = <<>>]

(***************************************************************************)
(* create_chat_engine                                                      *)
(***************************************************************************)
\* The empty dict.
EmptyConfig == [k \in {} |-> 0]

\* dict.get(key, default)
ConfigGet(config, key, default) ==
    IF key \in DOMAIN config THEN config[key] ELSE default

\* An LLM object: the completion provider with its temperature.
LLM(temperature) == [kind |-> "llm", temperature |-> temperature]

\* index.as_chat_engine(...): the engine object the library builds.  An llm that
\* is not passed (None) is resolved by the library, see ResolveLLM.
Engine(index, chat_mode, memory, llm, prompt) ==
    [kind |-> "engine", chat_mode |-> chat_mode, memory |-> memory,
     llm |-> llm, prompt |-> prompt, index |-> index]

\* A faulty variant: the configured token_limit is ignored and the default is used.
create_chat_engine_default_limit(index, engine_type, config) ==
    IF index = None THEN None
    ELSE IF engine_type = "condense_question"
    THEN Engine(index, "condense_question", UnboundedMemory, None, None)
    ELSE IF engine_type = "context"
    THEN Engine(index, "context", ChatMemoryBuffer(DefaultTokenLimit), None,
                ConfigGet(config, "system_prompt", DefaultPrompt))
    ELSE IF engine_type = "condense_plus_context"
    THEN Engine(index, "condense_plus_context", ChatMemoryBuffer(DefaultTokenLimit),
                LLM(ConfigGet(config, "temperature", DefaultTemperature)),
                ConfigGet(config, "context_prompt", DefaultPrompt))
    ELSE Engine(index, "default", UnboundedMemory, None, None)

\* A faulty variant: an unrecognised engine type yields no engine.
create_chat_engine_strict(index, engine_type, config) ==
    IF index = None THEN None
    ELSE IF engine_type = "condense_question"
    THEN Engine(index, "condense_question", UnboundedMemory, None, None)
    ELSE IF engine_type = "context"
    THEN Engine(index, "context",
                ChatMemoryBuffer(ConfigGet(config, "token_limit", DefaultTokenLimit)),
                None, ConfigGet(config, "system_prompt", DefaultPrompt))
    ELSE IF engine_type = "condense_plus_context"
    THEN Engine(index, "condense_plus_context",
                ChatMemoryBuffer(ConfigGet(config, "token_limit", DefaultTokenLimit)),
                LLM(ConfigGet(config, "temperature", DefaultTemperature)),
                ConfigGet(config, "context_prompt", DefaultPrompt))
    ELSE None

\* A faulty variant: values outside the widgets' ranges are clamped into them.
create_chat_engine_clamped(index, engine_type, config) ==
    LET limit == ConfigGet(config, "token_limit", DefaultTokenLimit)
        clamped == IF limit < MinTokenLimit THEN MinTokenLimit
                   ELSE IF limit > MaxTokenLimit THEN MaxTokenLimit ELSE limit
    IN  IF index = None THEN None
        ELSE IF engine_type = "condense_question"
        THEN Engine(index, "condense_question", UnboundedMemory, None, None)
        ELSE IF engine_type = "context"
        THEN Engine(index, "context", ChatMemoryBuffer(clamped), None,
                    ConfigGet(config, "system_prompt", DefaultPrompt))
        ELSE IF engine_type = "condense_plus_context"
        THEN Engine(index, "condense_plus_context", ChatMemoryBuffer(clamped),
                    LLM(ConfigGet(config, "temperature", DefaultTemperature)),
                    ConfigGet(config, "context_prompt", DefaultPrompt))
        ELSE Engine(index, "default", UnboundedMemory, None, None)

\* A faulty variant: the context branch asks for the condense_plus_context mode.
create_chat_engine_wrong_mode(index, engine_type, config) ==
    IF index = None THEN None
    ELSE IF engine_type = "condense_question"
    THEN Engine(index, "condense_question", UnboundedMemory, None, None)
    ELSE IF engine_type = "context"
    THEN Engine(index, "condense_plus_context",
                ChatMemoryBuffer(ConfigGet(config, "token_limit", DefaultTokenLimit)),
                None, ConfigGet(config, "system_prompt", DefaultPrompt))
    ELSE IF engine_type = "condense_plus_context"
    THEN Engine(index, "condense_plus_context",
                ChatMemoryBuffer(ConfigGet(config, "token_limit", DefaultTokenLimit)),
                LLM(ConfigGet(config, "temperature", DefaultTemperature)),
                ConfigGet(config, "context_prompt", DefaultPrompt))
    ELSE Engine(index, "default", UnboundedMemory, None, None)

create_chat_engine(index, engine_type, config) ==
    IF index = None THEN None
    ELSE IF engine_type = "condense_question"
    THEN Engine(index, "condense_question", UnboundedMemory, None, None)
    ELSE IF engine_type = "context"
    THEN Engine(index, "context",
                ChatMemoryBuffer(ConfigGet(config, "token_limit", DefaultTokenLimit)),
                None, ConfigGet(config, "system_prompt", DefaultPrompt))
    ELSE IF engine_type = "condense_plus_context"
    THEN Engine(index, "condense_plus_context",
                ChatMemoryBuffer(ConfigGet(config, "token_limit", DefaultTokenLimit)),
                LLM(ConfigGet(config, "temperature", DefaultTemperature)),
                ConfigGet(config, "context_prompt", DefaultPrompt))
    ELSE Engine(index, "default", UnboundedMemory, None, None)

\* The library's `llm or Settings.llm` when an engine is constructed without an
\* llm of its own: the process-wide default in effect at that moment.
ResolveLLM(engine, settings) ==
    IF engine = None \/ engine.llm # None THEN engine
    ELSE [engine EXCEPT !.llm = settings.llm]

(***************************************************************************)
(* Direct calls of create_chat_engine: the caller-facing engine factory,   *)
(* with arguments no widget restricts, and the memory of the engine it     *)
(* returned.                                                               *)
(***************************************************************************)
SomeIndex ==
    [kind |-> "index",
     documents |-> [kind |-> "documents", path |-> "data", files |-> {"AlbertEinstein.txt"}],
     temperature |-> DefaultTemperature]

ApiEngineTypes == EngineTypes \cup {"unknown"}

ApiTemperatures == {15}

ApiTokenLimits == {500, 2000, 9000}

ApiConfigs ==
    {EmptyConfig}
    \cup [temperature : ApiTemperatures]
    \cup [token_limit : ApiTokenLimits]
    \cup [temperature : ApiTemperatures, token_limit : ApiTokenLimits]

ApiTurns ==
    { Message("user", Text("When was Albert born?", 400)),
      Message("assistant", Text("Albert was born in 1879.", 700)),
      Message("user", Text("Tell me everything about Marie.", 1200)) }

ApiInit ==
    /\ api_call = [called |-> FALSE, index |-> None, engine_type |-> "context",
                   config |-> EmptyConfig, result |-> None, cleared |-> FALSE]
    /\ api_history = <<>>

ApiCreate(index, engine_type, config) ==
    /\ api_call' = [called |-> TRUE, index |-> index, engine_type |-> engine_type,
                    config |-> config, cleared |-> FALSE,
                    result |-> ResolveLLM(create_chat_engine(index, engine_type, config),
                                          Settings)]
    /\ api_history' = <<>>
    /\ UNCHANGED app_vars

ApiAppend(turn) ==
    /\ api_call.result # None
    /\ Len(api_history) < MaxAppends
    /\ api_call' = [api_call EXCEPT !.result.memory = MemoryAppend(@, turn)]
    /\ api_history' = Append(api_history, turn)
    /\ UNCHANGED app_vars

ApiClear ==
    /\ api_call.result # None
    /\ api_call.result.memory.turns # <<>>
    /\ api_call' = [api_call EXCEPT !.result.memory = MemoryClear(@),
                                    !.cleared = TRUE]
    /\ UNCHANGED <<api_history, app_vars>>

(***************************************************************************)
(* The chat engine's chat(): spec.md sections 4.2 to 4.4 and 7.            *)
(***************************************************************************)
\* Condensation: the standalone question the completion provider writes from the
\* utterance and the turns known so far.  It is never the utterance itself.
Condense(utterance, turns) ==
    [kind |-> "condensed", utterance |-> utterance, turns |-> turns]

\* Index.retrieve(query, k)
Retrieve(index, query) ==
    [kind |-> "chunks", documents |-> index.documents, query |-> query]

ProviderError(what) == [kind |-> "ProviderError", message |-> Text(what, 4)]

Response(text) == [kind |-> "response", response |-> text]

\* What the providers do during one respond.
Completions == { Text("Albert was born in 1879.", 400) }

Outcomes ==
    {[kind |-> "ok", text |-> c] : c \in Completions}
    \cup {[kind |-> "embedding_error"], [kind |-> "completion_error"]}

\* respond(utterance): the engine after the call, the query sent to the index,
\* the completion request built (None when retrieval failed first) and the result.
Respond(engine, utterance, outcome) ==
    LET user == Message("user", utterance)
        m1 == MemoryAppend(engine.memory, user)
        query == IF engine.chat_mode = "context"
                 THEN utterance
                 ELSE Condense(utterance, engine.memory.turns)
        chunks == Retrieve(engine.index, query)
        prompt == IF engine.chat_mode = "condense_question"
                  THEN [kind |-> "prompt", instructions |-> None, chunks |-> chunks,
                        history |-> <<>>, question |-> query, llm |-> engine.llm]
                  ELSE [kind |-> "prompt", instructions |-> engine.prompt,
                        chunks |-> chunks, history |-> m1.turns, question |-> None,
                        llm |-> engine.llm]
    IN  IF outcome.kind = "embedding_error"
        THEN [engine |-> [engine EXCEPT !.memory = m1], query |-> query,
              prompt |-> None, result |-> ProviderError("embedding call failed")]
        ELSE IF outcome.kind = "completion_error"
        THEN [engine |-> [engine EXCEPT !.memory = m1], query |-> query,
              prompt |-> prompt, result |-> ProviderError("completion call failed")]
        ELSE [engine |-> [engine EXCEPT
                            !.memory = MemoryAppend(m1, Message("assistant", outcome.text))],
              query |-> query, prompt |-> prompt, result |-> Response(outcome.text)]

(***************************************************************************)
(* The file system the applications read.  A directory named by a path     *)
(* does not change during a session; the session's upload directory holds  *)
(* what the last upload saved.                                             *)
(***************************************************************************)
DefaultPath == "data"

MissingPath == "/no/such/dir"

EmptyPath == "/empty/dir"

\* tempfile.mkdtemp()
TempPath == "/tmp/tmpdir"

Paths == {DefaultPath, MissingPath, EmptyPath, TempPath}

DataFiles ==
    {"AlbertEinstein.txt", "MarieCurie.txt", "friends.txt", "meetingMarieAlbert.txt"}

DirExists(path, fs) ==
    \/ path \in {DefaultPath, EmptyPath}
    \/ path = TempPath /\ fs.created

DirFiles(path, fs) ==
    IF path = DefaultPath THEN DataFiles
    ELSE IF path = TempPath THEN fs.files
    ELSE {}

\* SimpleDirectoryReader(data_path).load_data(): one document per file.
Documents(path, files) == [kind |-> "documents", path |-> path, files |-> files]

(***************************************************************************)
(* load_documents and create_index, and their st.cache_resource stores.    *)
(***************************************************************************)
Miss == [kind |-> "Miss"]

\* The body of load_documents: the value returned and the st.error it shows.
load_documents(data_path, fs) ==
    IF ~DirExists(data_path, fs)
    THEN [value |-> None, errors |-> {"Data path does not exist"}]
    ELSE LET documents == Documents(data_path, DirFiles(data_path, fs))
         IN  IF documents.files = {}
             THEN [value |-> None, errors |-> {"No documents found"}]
             ELSE [value |-> documents, errors |-> {}]

\* st.cache_resource: the stored result is replayed for a key seen before.
cached_load_documents(cache, data_path, fs) ==
    IF cache[data_path] # Miss THEN cache[data_path] ELSE load_documents(data_path, fs)

Index(documents, temperature) ==
    [kind |-> "index", documents |-> documents, temperature |-> temperature]

EmbedModel == [kind |-> "embed_model", model_name |-> "amazon.titan-embed-text-v2:0"]

\* The body of create_index: the index returned and the Settings it leaves behind.
create_index(documents, temperature, settings) ==
    IF documents = None
    THEN [index |-> None, settings |-> settings]
    ELSE [index |-> Index(documents, temperature),
          settings |-> [llm |-> LLM(temperature), embed_model |-> EmbedModel]]

IndexKey(documents, temperature) == [documents |-> documents, temperature |-> temperature]

(***************************************************************************)
(* main(): one run of the script.                                          *)
(***************************************************************************)
\* A faulty variant of the check: every value passes.
TruthyAlways(documents) == TRUE

\* `if documents:` - None and the empty list are falsy.
Truthy(documents) == documents # None /\ documents.files # {}

\* The config dict main() builds from the widgets.
Config(w) ==
    IF w.engine_type = "context"
    THEN [temperature |-> w.temperature, token_limit |-> w.token_limit,
          system_prompt |-> DefaultPrompt]
    ELSE IF w.engine_type = "condense_plus_context"
    THEN [temperature |-> w.temperature, token_limit |-> w.token_limit,
          context_prompt |-> DefaultPrompt]
    ELSE [temperature |-> w.temperature]

\* The sidebar's data source section: the upload directory after it, and data_path.
DataSource(w, fs) ==
    IF w.path_method = "Use default data folder"
    THEN [temp_dir |-> fs, data_path |-> DefaultPath]
    ELSE IF w.path_method = "Enter custom path"
    THEN [temp_dir |-> fs, data_path |-> w.custom_path]
    ELSE IF w.uploaded_files # {}
    THEN [temp_dir |-> [created |-> TRUE, files |-> w.uploaded_files],
          data_path |-> TempPath]
    ELSE [temp_dir |-> fs, data_path |-> DefaultPath]

NoEvent == [prompt |-> None, outcome |-> None, clear |-> FALSE]

\* A faulty variant: chat() is called a second time for the text that is stored.
ChatInputTwice(msgs, chat_engine, ev) ==
    IF ev.prompt = None
    THEN [messages |-> msgs, chat_engine |-> chat_engine, respond |-> None,
          errors |-> {}]
    ELSE LET with_user == Append(msgs, Message("user", ev.prompt))
             first == Respond(chat_engine, ev.prompt, ev.outcome)
             r == Respond(first.engine, ev.prompt, ev.outcome)
             record == [kind |-> "respond", utterance |-> ev.prompt,
                        memory_at_start |-> chat_engine.memory.turns,
                        query |-> r.query, prompt |-> r.prompt, result |-> r.result]
         IN  IF r.result.kind = "response"
             THEN [messages |-> Append(with_user,
                                       Message("assistant", r.result.response)),
                   chat_engine |-> r.engine, respond |-> record, errors |-> {}]
             ELSE LET error_msg == Concat(Text("Error generating response: ", 3),
                                          r.result.message)
                  IN  [messages |-> Append(with_user, Message("assistant", error_msg)),
                       chat_engine |-> r.engine, respond |-> record,
                       errors |-> {"Error generating response"}]

\* The chat input section: the messages, the engine and the respond record after it.
ChatInput(msgs, chat_engine, ev) ==
    IF ev.prompt = None
    THEN [messages |-> msgs, chat_engine |-> chat_engine, respond |-> None,
          errors |-> {}]
    ELSE LET with_user == Append(msgs, Message("user", ev.prompt))
             r == Respond(chat_engine, ev.prompt, ev.outcome)
             record == [kind |-> "respond", utterance |-> ev.prompt,
                        memory_at_start |-> chat_engine.memory.turns,
                        query |-> r.query, prompt |-> r.prompt, result |-> r.result]
         IN  IF r.result.kind = "response"
             THEN [messages |-> Append(with_user,
                                       Message("assistant", r.result.response)),
                   chat_engine |-> r.engine, respond |-> record, errors |-> {}]
             ELSE LET error_msg == Concat(Text("Error generating response: ", 3),
                                          r.result.message)
                  IN  [messages |-> Append(with_user, Message("assistant", error_msg)),
                       chat_engine |-> r.engine, respond |-> record,
                       errors |-> {"Error generating response"}]

\* One run of main() from the session and process state `s` with the widgets `w`
\* and the event `ev` that triggered it.
ScriptRun(s, w, ev) ==
    LET src == DataSource(w, s.temp_dir)
        data_path == src.data_path
        config == Config(w)
        loaded == cached_load_documents(s.doc_cache, data_path, src.temp_dir)
        doc_cache2 == [s.doc_cache EXCEPT ![data_path] = loaded]
        documents == loaded.value
        key == IndexKey(documents, w.temperature)
        hit == key \in s.index_cache
        built == create_index(documents, w.temperature, s.Settings)
        index == IF hit THEN Index(documents, w.temperature) ELSE built.index
        base == [messages |-> s.messages, temp_dir |-> src.temp_dir,
                 doc_cache |-> doc_cache2, index_cache |-> s.index_cache,
                 Settings |-> s.Settings]
        locals == [data_path |-> data_path, engine_type |-> w.engine_type,
                   config |-> config, documents |-> documents, index |-> None,
                   index_built |-> FALSE, chat_engine |-> None,
                   engine_created |-> FALSE, respond |-> None, cleared |-> FALSE,
                   errors |-> loaded.errors]
    IN  IF ~Truthy(documents)
        THEN base @@
             [run |-> [locals EXCEPT !.errors = @ \cup {"Failed to load documents"}]]
        ELSE LET settings2 == IF hit THEN s.Settings ELSE built.settings
                 after_index == [base EXCEPT !.index_cache = @ \cup {key},
                                             !.Settings = settings2]
             IN  IF index = None
                 THEN after_index @@
                      [run |-> [locals EXCEPT
                                  !.errors = @ \cup {"Failed to create index"}]]
                 ELSE LET chat_engine ==
                              ResolveLLM(create_chat_engine(index, w.engine_type, config),
                                         settings2)
                          chat == ChatInput(s.messages, chat_engine, ev)
                      IN  [after_index EXCEPT
                             !.messages = IF ev.clear THEN <<>> ELSE chat.messages] @@
                          [run |-> [locals EXCEPT
                                      !.index = index,
                                      !.index_built = ~hit,
                                      !.chat_engine = chat.chat_engine,
                                      !.engine_created = TRUE,
                                      !.respond = chat.respond,
                                      !.cleared = ev.clear,
                                      !.errors = @ \cup chat.errors]]

(***************************************************************************)
(* The session: what the user can do, each followed by a run of main().    *)
(***************************************************************************)
PathMethods == {"Use default data folder", "Enter custom path", "Upload files"}

\* What the user types into the path field, which starts as the default folder.
CustomPaths == {MissingPath, EmptyPath}

UploadSets == {{}, {"notes.txt"}}

Temperatures == {3, 7}

TokenLimits == {1000, 3900}

\* The token counts are chosen so that a turn pair fits the smaller token limit
\* (400 + 400) or overflows it (700 + 400).
Prompts == { Text("When was Albert born?", 400), Text("And Marie?", 700) }

DefaultWidgets ==
    [path_method |-> "Use default data folder", custom_path |-> DefaultPath,
     uploaded_files |-> {}, engine_type |-> "condense_question",
     temperature |-> DefaultTemperature, token_limit |-> DefaultTokenLimit]

\* A fresh process and session: nothing cached, no Settings, no messages.
Blank ==
    [messages |-> <<>>, temp_dir |-> [created |-> FALSE, files |-> {}],
     doc_cache |-> [p \in Paths |-> Miss], index_cache |-> {},
     Settings |-> [llm |-> None, embed_model |-> None]]

Current ==
    [messages |-> messages, temp_dir |-> temp_dir, doc_cache |-> doc_cache,
     index_cache |-> index_cache, Settings |-> Settings]

StateOf(r) ==
    [messages |-> r.messages, temp_dir |-> r.temp_dir, doc_cache |-> r.doc_cache,
     index_cache |-> r.index_cache, Settings |-> r.Settings]

Becomes(w, r) ==
    /\ widgets' = w
    /\ messages' = r.messages
    /\ temp_dir' = r.temp_dir
    /\ doc_cache' = r.doc_cache
    /\ index_cache' = r.index_cache
    /\ Settings' = r.Settings
    /\ run' = r.run
    /\ after_reset' = IF r.run.cleared /\ messages # <<>> THEN TRUE
                      ELSE IF run.respond # None THEN FALSE
                      ELSE after_reset
    /\ UNCHANGED api_vars

\* The chat input and the Clear button are drawn only by a run that got past the
\* loading section.
Rendered == run.chat_engine # None

\* The first run of the script, when the page is opened.
AppInit ==
    LET r == ScriptRun(Blank, DefaultWidgets, NoEvent)
    IN  /\ widgets = DefaultWidgets
        /\ messages = r.messages
        /\ temp_dir = r.temp_dir
        /\ doc_cache = r.doc_cache
        /\ index_cache = r.index_cache
        /\ Settings = r.Settings
        /\ run = r.run
        /\ after_reset = FALSE

\* "Rerun" from the application menu: nothing changed.
Rerun == Becomes(widgets, ScriptRun(Current, widgets, NoEvent))

\* A widget that is not drawn loses its value.
SelectPathMethod(m) ==
    /\ m # widgets.path_method
    /\ LET w == [widgets EXCEPT !.path_method = m, !.custom_path = DefaultPath,
                                !.uploaded_files = {}]
       IN  Becomes(w, ScriptRun(Current, w, NoEvent))

EnterCustomPath(p) ==
    /\ widgets.path_method = "Enter custom path"
    /\ p # widgets.custom_path
    /\ LET w == [widgets EXCEPT !.custom_path = p]
       IN  Becomes(w, ScriptRun(Current, w, NoEvent))

\* The uploader's selection changes by adding files to it or removing files from it.
UploadFiles(files) ==
    /\ widgets.path_method = "Upload files"
    /\ files # widgets.uploaded_files
    /\ (widgets.uploaded_files \subseteq files \/ files \subseteq widgets.uploaded_files)
    /\ LET w == [widgets EXCEPT !.uploaded_files = files]
       IN  Becomes(w, ScriptRun(Current, w, NoEvent))

SelectEngine(e) ==
    /\ e # widgets.engine_type
    /\ LET w == [widgets EXCEPT !.engine_type = e,
                                !.token_limit = IF e = "condense_question"
                                                THEN DefaultTokenLimit ELSE @]
       IN  Becomes(w, ScriptRun(Current, w, NoEvent))

SlideTemperature(t) ==
    /\ t # widgets.temperature
    /\ LET w == [widgets EXCEPT !.temperature = t]
       IN  Becomes(w, ScriptRun(Current, w, NoEvent))

InputTokenLimit(n) ==
    /\ widgets.engine_type \in {"context", "condense_plus_context"}
    /\ n # widgets.token_limit
    /\ LET w == [widgets EXCEPT !.token_limit = n]
       IN  Becomes(w, ScriptRun(Current, w, NoEvent))

SubmitPrompt(prompt, outcome) ==
    /\ Rendered
    /\ Len(messages) + 2 <= MaxMessages
    /\ Becomes(widgets,
               ScriptRun(Current, widgets,
                         [prompt |-> prompt, outcome |-> outcome, clear |-> FALSE]))

\* A faulty variant of the Clear button: the script is run again but the messages
\* are kept.
ClickClearKeepsMessages ==
    /\ Rendered
    /\ LET r1 == ScriptRun(Current, widgets, NoEvent)
           r2 == ScriptRun(StateOf(r1), widgets, NoEvent)
       IN  Becomes(widgets, [r2 EXCEPT !.run.cleared = TRUE])

\* The Clear button: the run empties the messages and st.rerun() runs the script
\* once more.
ClickClear ==
    /\ Rendered
    /\ LET r1 == ScriptRun(Current, widgets,
                           [prompt |-> None, outcome |-> None, clear |-> TRUE])
           r2 == ScriptRun(StateOf(r1), widgets, NoEvent)
       IN  Becomes(widgets, [r2 EXCEPT !.run.cleared = TRUE])

Init == AppInit /\ ApiInit

Next ==
    \/ Rerun
    \/ \E m \in PathMethods : SelectPathMethod(m)
    \/ \E p \in CustomPaths : EnterCustomPath(p)
    \/ \E files \in UploadSets : UploadFiles(files)
    \/ \E e \in EngineTypes : SelectEngine(e)
    \/ \E t \in Temperatures : SlideTemperature(t)
    \/ \E n \in TokenLimits : InputTokenLimit(n)
    \/ \E prompt \in Prompts, outcome \in Outcomes : SubmitPrompt(prompt, outcome)
    \/ ClickClear

\* The application, driven through its widgets.
Spec == Init /\ [][Next]_vars

ApiNext ==
    \/ \E index \in {None, SomeIndex}, engine_type \in ApiEngineTypes,
          config \in ApiConfigs : ApiCreate(index, engine_type, config)
    \/ \E turn \in ApiTurns : ApiAppend(turn)
    \/ ApiClear

\* The engine factory and the memory of its engine, called directly.
SpecApi == Init /\ [][ApiNext]_vars

(***************************************************************************)
(* The application with a second upload: the corpus selection in full, the *)
(* conversation reduced to one answered question per turn.                 *)
(***************************************************************************)
CorpusUploadSets == {{}, {"notes.txt"}, {"paper.md"}}

CorpusPrompts == { Text("When was Albert born?", 400) }

CorpusOutcomes == {[kind |-> "ok", text |-> c] : c \in Completions}

CorpusNext ==
    \/ Rerun
    \/ \E m \in PathMethods : SelectPathMethod(m)
    \/ \E p \in CustomPaths : EnterCustomPath(p)
    \/ \E files \in CorpusUploadSets : UploadFiles(files)
    \/ \E e \in EngineTypes : SelectEngine(e)
    \/ \E t \in Temperatures : SlideTemperature(t)
    \/ \E n \in TokenLimits : InputTokenLimit(n)
    \/ \E prompt \in CorpusPrompts, outcome \in CorpusOutcomes :
          SubmitPrompt(prompt, outcome)
    \/ ClickClear

\* The application, driven through its widgets, with two different uploads.
SpecCorpus == Init /\ [][CorpusNext]_vars

(***************************************************************************)
(* Properties of the engine factory and the Memory Buffer (SpecApi).       *)
(***************************************************************************)
ApiEngine == api_call.result

ApiBounded == ApiEngine # None /\ api_call.engine_type \in {"context", "condense_plus_context"}

\* The budget the caller configured: token_limit, or its default when left out.
ApiBudget == ConfigGet(api_call.config, "token_limit", DefaultTokenLimit)

\* C1: for every sequence of appends to the Memory Buffer of a context or
\* condense_plus_context engine created with token_limit = T, the token counts of
\* the retained turns sum to at most T, unless a single turn that alone exceeds T
\* is retained alone.
C1_TokenBudget ==
    ApiBounded =>
        LET turns == ApiEngine.memory.turns
        IN  \/ SumTokens(turns) <= ApiBudget
            \/ Len(turns) = 1 /\ TokenCount(turns[1]) > ApiBudget

\* C1's case: after earlier turns were retained, an oversized turn evicted them all
\* and is retained alone.
C1_Witness ==
    /\ ApiBounded
    /\ ~api_call.cleared
    /\ Len(api_history) >= 3
    /\ Len(ApiEngine.memory.turns) = 1
    /\ TokenCount(ApiEngine.memory.turns[1]) > ApiBudget
    /\ TokenCount(api_history[1]) <= ApiBudget

IsSuffix(t, h) == \E k \in 0..Len(h) : t = SubSeq(h, k + 1, Len(h))

\* C2: eviction is FIFO: after any sequence of appends the retained turns are a
\* contiguous suffix of the full append history, in their original order.
C2_RetainedIsSuffix ==
    ApiEngine # None => IsSuffix(ApiEngine.memory.turns, api_history)

\* C2's case: an append evicted the oldest turn and kept two or more.
C2_Witness ==
    /\ ApiBounded
    /\ ~api_call.cleared
    /\ Len(ApiEngine.memory.turns) >= 2
    /\ Len(ApiEngine.memory.turns) < Len(api_history)
    /\ ApiEngine.memory.turns[1] # api_history[1]

ApiUnknown == api_call.called /\ api_call.engine_type \notin EngineTypes

InRange(x, lo, hi) == lo <= x /\ x <= hi

TokenLimitOutOfRange ==
    /\ api_call.engine_type \in {"context", "condense_plus_context"}
    /\ "token_limit" \in DOMAIN api_call.config
    /\ ~InRange(api_call.config.token_limit, MinTokenLimit, MaxTokenLimit)

TemperatureOutOfRange ==
    /\ "temperature" \in DOMAIN api_call.config
    /\ ~InRange(api_call.config.temperature, MinTemperature, MaxTemperature)

Responded(r) == r.respond # None

Failed(r) == Responded(r) /\ r.respond.result.kind = "ProviderError"

Succeeded(r) == Responded(r) /\ r.respond.result.kind = "response"

UserTurn(r) == Message("user", r.respond.utterance)

Occurs(turn, turns) == \E i \in 1..Len(turns) : turns[i] = turn

LastMessage == messages[Len(messages)]

SameConfiguration ==
    /\ run'.engine_type = run.engine_type
    /\ run'.config = run.config
    /\ run'.data_path = run.data_path
    /\ run'.documents = run.documents

\* C5 as stated: when a provider fails during a respond, the user's turn of that
\* respond stays recorded, the failure is reported as a non-empty error-shaped
\* response, and the user's turn is part of the context the next respond sees.
C5_FailedTurnIsKeptForNextRespond ==
    [][ /\ Failed(run') =>
              /\ Len(messages') >= 2
              /\ messages'[Len(messages') - 1] = UserTurn(run')
              /\ messages'[Len(messages')].role = "assistant"
              /\ messages'[Len(messages')].content.s # <<>>
              /\ "Error generating response" \in run'.errors
        /\ (Failed(run) /\ Responded(run') /\ SameConfiguration
                /\ run.engine_type \in {"context", "condense_plus_context"}) =>
              Occurs(UserTurn(run), run'.respond.memory_at_start)
      ]_vars

\* C6 as stated: between two successive responds with no change of configuration
\* or corpus, the same engine and the same Memory Buffer serve both: the second
\* starts with the turns retained after the first, and no engine is created.
C6_EngineKeptBetweenResponds ==
    [][ (Responded(run) /\ Responded(run') /\ SameConfiguration) =>
            /\ run'.respond.memory_at_start = run.chat_engine.memory.turns
            /\ ~run'.engine_created
      ]_vars

FirstContextTurn ==
    /\ Succeeded(run)
    /\ run.engine_type = "context"
    /\ run.respond.memory_at_start = <<>>

AssistantTurn(r) == Message("assistant", r.respond.result.response)

\* C7 as stated: in context mode a successful respond appends the user turn and
\* then the assistant turn and nothing else, so that from an empty buffer the
\* buffer holds exactly those 2 turns after the first successful turn.
C7_TwoTurnsAfterFirstTurn ==
    FirstContextTurn =>
        run.chat_engine.memory.turns = <<UserTurn(run), AssistantTurn(run)>>

\* C7 as amended: the same, provided the token counts of the two turns together
\* do not exceed the buffer's token_limit.
C7_TwoTurnsWithinBudget ==
    (FirstContextTurn
        /\ TokenCount(UserTurn(run)) + TokenCount(AssistantTurn(run))
              <= run.config.token_limit)
    => run.chat_engine.memory.turns = <<UserTurn(run), AssistantTurn(run)>>

\* C7's case: the first successful turn of a context engine, within the budget.
C7_Witness ==
    /\ FirstContextTurn
    /\ TokenCount(UserTurn(run)) + TokenCount(AssistantTurn(run))
          <= run.config.token_limit
    /\ Len(run.chat_engine.memory.turns) = 2
    /\ LastMessage = AssistantTurn(run)

\* C8: after the Clear button (the application's reset) the message list and the
\* engine's Memory Buffer are empty, and the completion request a later context
\* respond builds holds that respond's user turn and no earlier turn.
C8_ResetEmptiesMemory ==
    /\ run.cleared =>
          /\ messages = <<>>
          /\ run.chat_engine # None
          /\ run.chat_engine.memory.turns = <<>>
    /\ (after_reset /\ Responded(run) /\ run.engine_type = "context"
            /\ run.respond.prompt # None)
       => run.respond.prompt.history = <<UserTurn(run)>>

\* C8's case: turns were recorded, Clear after_reset them, and a context respond then
\* built its completion request.
C8_Witness ==
    /\ after_reset
    /\ Responded(run)
    /\ run.engine_type = "context"
    /\ run.respond.prompt # None
    /\ Len(messages) = 2

\* C9: the query sent to the Vector Index is the literal utterance of the call in
\* context mode, and the condensed question in the two condensing modes.
C9_RetrievalQuery ==
    Responded(run) =>
        /\ messages[Len(messages) - 1] = UserTurn(run)
        /\ IF run.engine_type = "context"
           THEN run.respond.query = messages[Len(messages) - 1].content
           ELSE run.respond.query =
                    Condense(run.respond.utterance, run.respond.memory_at_start)

\* C9's case: a context respond that follows an earlier turn of the session.
C9_Witness ==
    /\ Responded(run)
    /\ run.engine_type = "context"
    /\ Len(messages) = 4
    /\ messages[1].content # run.respond.utterance
    /\ run.respond.query = run.respond.utterance

SourceFails(path) == ~DirExists(path, temp_dir) \/ DirFiles(path, temp_dir) = {}

\* C10: when the corpus source does not exist or yields no document, loading
\* fails, the failure is shown to the user, and that run builds no index, creates
\* no engine and issues no respond.
C10_LoadFailureStopsRun ==
    SourceFails(run.data_path) =>
        /\ run.documents = None
        /\ "Failed to load documents" \in run.errors
        /\ run.index = None
        /\ ~run.index_built
        /\ run.chat_engine = None
        /\ ~run.engine_created
        /\ run.respond = None

\* C10's case: a run whose data path is an existing directory without documents,
\* after a conversation had started.
C10_Witness ==
    /\ run.data_path = EmptyPath
    /\ "No documents found" \in run.errors
    /\ messages # <<>>

\* The documents a load of the corpus that `path` names now gives.
CorpusNow(path) == load_documents(path, temp_dir).value

\* C11 as stated: after the corpus changed (another directory path, or another
\* set of uploaded files saved into the session's upload directory) the documents
\* and the index every respond uses are those loaded and built from the corpus now
\* selected; no cached document set or index of an earlier corpus is served.
C11_RespondUsesCurrentCorpus ==
    Responded(run) =>
        /\ run.documents = CorpusNow(run.data_path)
        /\ run.index.documents = CorpusNow(run.data_path)

\* C12 as stated: whatever temperatures were selected in earlier runs, also when
\* the index of the selected temperature is already cached, the process-wide
\* default completion provider in effect when an engine is created has the selected
\* temperature, and so has the provider of a condense_question or context engine.
C12_DefaultProviderHasSelectedTemperature ==
    run.engine_created =>
        /\ Settings.llm = LLM(widgets.temperature)
        /\ run.engine_type \in {"condense_question", "context"} =>
               run.chat_engine.llm = LLM(widgets.temperature)

====
